---- MODULE Spec2Model ----
(***************************************************************************)
(* Model of the file-audit monitor: FileMonitor (event coordinator),       *)
(* BackupManager (backup store) and LogManager (activity ledger).          *)
(*                                                                         *)
(* Time is counted in whole seconds (`now`), the calendar date is a day    *)
(* number (`today`) that may advance at any second boundary.  Paths and    *)
(* file names are sequences of one-character strings, so that basename,    *)
(* splitext, lower and endswith are computed as the library computes them. *)
(* One event handler runs atomically; every clock read inside one handler  *)
(* returns the same instant.  Nondeterministic outcomes of the file        *)
(* system (missing source, failing write, failing removal, order of        *)
(* entries of equal modification time) are returned as sets of outcomes.   *)
(***************************************************************************)
EXTENDS Integers, Sequences, FiniteSets, TLC

VARIABLES
    now,                  \* time.time(), in seconds
    today,                \* date.today(), as a day number
    last_events,          \* FileMonitor.last_events: path -> time of last accepted event
    backups,              \* backup_dir/<name_only>/ : directory name -> set of backup files
    mod_count_per_file,   \* LogManager.mod_count_per_file
    total_modifications,  \* LogManager.total_modifications
    current_day,          \* LogManager.current_day
    log_entries,          \* LogManager.log_entries
    resumo_files,         \* files of resumo_dir
    log_files,            \* files of log_dir
    ev,                   \* history: the event handled by the last step (or NoEvent)
    calls,                \* history: calls and file-system effects of the last handler, in order
    made,                 \* history: directory name -> number of successful create_backup calls
    rm_failed,            \* history: some os.remove of a backup has failed so far
    accepted,             \* history: number of events accepted so far
    registered,           \* history: [name, day] of every register_modification call, in order
    accepted_days,        \* history: the dates on which an event was accepted
    folder_backups,       \* snapshots in backup_folder_dir
    main_pc,              \* the statement of main() the main thread executes next
    main_done,            \* history: the shutdown statements main() has completed, in order
    last_accepted         \* history: path -> [action, time] of the last accepted event

vars == <<now, today, last_events, backups, mod_count_per_file, total_modifications,
          current_day, log_entries, resumo_files, log_files, ev, calls, made, rm_failed,
          accepted, registered, accepted_days, folder_backups, main_pc, main_done,
          last_accepted>>

----------------------------------------------------------------------------
(* Bounds of the model *)

StartTime == 5          \* clock value when the process starts
MaxTime == 11           \* the clock stops at this second
MaxDay == 2             \* the calendar stops at this day number
MaxAccepted == 3        \* events accepted in one run
max_backups == 2        \* BackupManager(max_backups=...)
max_resumo_files == 2   \* LogManager(max_resumo_files=...)

----------------------------------------------------------------------------
(* Strings as sequences of characters *)

lower_char(c) ==
    CASE c = "A" -> "a" [] c = "B" -> "b" [] c = "D" -> "d" [] c = "G" -> "g"
      [] c = "L" -> "l" [] c = "M" -> "m" [] c = "O" -> "o" [] c = "T" -> "t"
      [] c = "W" -> "w" [] c = "X" -> "x" [] OTHER -> c

lower(s) == [i \in 1..Len(s) |-> lower_char(s[i])]

endswith(s, suffix) ==
    /\ Len(suffix) <= Len(s)
    /\ SubSeq(s, Len(s) - Len(suffix) + 1, Len(s)) = suffix

\* index of the last occurrence of character c in s, 0 if none
rfind(s, c) ==
    LET idx == {i \in 1..Len(s) : s[i] = c}
    IN  IF idx = {} THEN 0 ELSE CHOOSE i \in idx : \A j \in idx : j <= i

basename(p) == SubSeq(p, rfind(p, "/") + 1, Len(p))

\* os.path.splitext: the extension starts at the last dot, unless only dots precede it
splitext(p) ==
    LET sepIndex == rfind(p, "/")
        dotIndex == rfind(p, ".")
    IN  IF dotIndex > sepIndex
             /\ \E i \in (sepIndex + 1)..(dotIndex - 1) : p[i] # "."
        THEN <<SubSeq(p, 1, dotIndex - 1), SubSeq(p, dotIndex, Len(p))>>
        ELSE <<p, <<>>>>

----------------------------------------------------------------------------
(* Inputs *)

MONITORED_EXTENSIONS ==
    { <<".", "d", "o", "m">>, <<".", "p", "r", "j">>, <<".", "x", "m", "l">>,
      <<".", "l", "i", "b">>, <<".", "t", "x", "t">> }

PathA    == <<"/", "w", "/", "a", ".", "t", "x", "t">>
PathSubA == <<"/", "w", "/", "d", "/", "a", ".", "t", "x", "t">>
PathB    == <<"/", "w", "/", "b", ".", "X", "M", "L">>
PathAXml == <<"/", "w", "/", "a", ".", "x", "m", "l">>
PathLog  == <<"/", "w", "/", "a", ".", "l", "o", "g">>
PathDir  == <<"/", "w", "/", "e", ".", "t", "x", "t">>     \* a directory

\* The names main gives to the summary and the log directory under backup_dir,
\* and two watched files whose stems are these names.
resumo_dir_name == <<"L", "o", "g", "s", " ", "R", "e", "s", "u", "m", "o">>
log_consolidado_dir_name ==
    <<"L", "o", "g", "s", " ", "C", "o", "n", "s", "o", "l", "i", "d", "a", "d", "o", "s">>
PathResumo == <<"/", "w", "/">> \o resumo_dir_name \o <<".", "t", "x", "t">>
PathLogs   == <<"/", "w", "/">> \o log_consolidado_dir_name \o <<".", "x", "m", "l">>

Paths == {PathA, PathSubA, PathAXml, PathB, PathLog, PathDir, PathResumo, PathLogs}

File(p) == [src_path |-> p, is_directory |-> FALSE]
Directory(p) == [src_path |-> p, is_directory |-> TRUE]

\* what the watcher delivers (event.src_path, event.is_directory) in the
\* three scenarios that are explored
CoordinatorEvents == {File(PathA), File(PathLog), Directory(PathDir)}
BackupEvents == {File(PathA), File(PathSubA), File(PathAXml)}
LedgerEvents == {File(PathA), File(PathB)}
LayoutEvents == {File(PathA), File(PathResumo), File(PathLogs)}

Actions == {"MODIFICADO", "CRIADO", "DELETADO"}

name_only_of(filepath) == splitext(basename(filepath))[1]
ext_of(filepath) == splitext(basename(filepath))[2]

DirNames == {name_only_of(p) : p \in Paths}

NoEvent == [src_path |-> <<>>, is_directory |-> FALSE, action |-> "none"]

\* what the source file may look like when it is copied: removed or unreadable,
\* carrying an old modification time (copied in with its metadata), or just written
SourceStates(t) ==
    { [exists |-> FALSE, mtime |-> 0], [exists |-> TRUE, mtime |-> 0],
      [exists |-> TRUE, mtime |-> t] }

----------------------------------------------------------------------------
(* Helpers *)

Put(f, k, v) == [x \in DOMAIN f \cup {k} |-> IF x = k THEN v ELSE f[x]]

Get(f, k, default) == IF k \in DOMAIN f THEN f[k] ELSE default

RECURSIVE SumOver(_, _)
SumOver(f, S) ==
    IF S = {} THEN 0
    ELSE LET x == CHOOSE y \in S : TRUE IN f[x] + SumOver(f, S \ {x})

Sum(f) == SumOver(f, DOMAIN f)

Did(w, what) == [w EXCEPT !.calls = Append(@, what)]

\* the program state a handler reads and writes
World ==
    [ last_events |-> last_events, backups |-> backups,
      mod_count_per_file |-> mod_count_per_file,
      total_modifications |-> total_modifications,
      current_day |-> current_day, log_entries |-> log_entries,
      resumo_files |-> resumo_files, log_files |-> log_files,
      calls |-> <<>>, made |-> made, rm_failed |-> rm_failed, registered |-> registered,
      folder_backups |-> folder_backups ]

----------------------------------------------------------------------------
(* Retention: sorted(listdir, key=getmtime), then pop(0) and remove while    *)
(* the list is longer than the cap.  Entries of equal modification time     *)
(* come in the order listdir yields them, which is arbitrary.  A failing    *)
(* removal raises and ends the loop.                                        *)

OldestFirst(files, k) ==
    { R \in SUBSET files :
        /\ Cardinality(R) = k
        /\ \A r \in R, f \in files \ R : r.mtime <= f.mtime }

remove_oldest(files, cap) ==
    LET excess == Cardinality(files) - cap
    IN  IF excess <= 0
        THEN { [files |-> files, failed |-> FALSE] }
        ELSE { [files |-> files \ R, failed |-> FALSE] : R \in OldestFirst(files, excess) }
             \cup UNION { { [files |-> files \ R, failed |-> TRUE] : R \in OldestFirst(files, k) }
                           : k \in 0..(excess - 1) }

----------------------------------------------------------------------------
(* BackupManager *)

\* slip: "if" instead of "while", one file is removed per cleanup
cleanup_old_backups_removes_one(files) ==
    remove_oldest(files, IF Cardinality(files) > max_backups THEN Cardinality(files) - 1
                                                             ELSE max_backups)

\* slip: the loop stops one file too early
cleanup_old_backups_keeps_one_more(files) == remove_oldest(files, max_backups + 1)

cleanup_old_backups(files) == remove_oldest(files, max_backups)

\* slip: the backup store counts the modification itself
\* os.path.join(backup_dir, name_only): the files of that directory, which is
\* the summary or the log directory when name_only is its name.
file_backup_dir(w, name_only) ==
    CASE name_only = resumo_dir_name -> w.resumo_files
      [] name_only = log_consolidado_dir_name -> w.log_files
      [] OTHER -> w.backups[name_only]

write_file_backup_dir(w, name_only, files) ==
    CASE name_only = resumo_dir_name -> [w EXCEPT !.resumo_files = files]
      [] name_only = log_consolidado_dir_name -> [w EXCEPT !.log_files = files]
      [] OTHER -> [w EXCEPT !.backups[name_only] = files]

\* f is the file <name_only>_<t>_<user><ext> of its directory.
is_backup_path(f, t, ext) == "ts" \in DOMAIN f /\ f.ts = t /\ f.ext = ext

create_backup_counts(w, filepath, t) ==
    LET filename == basename(filepath)
        name_only == splitext(filename)[1]
        ext == splitext(filename)[2]
        backup_path == <<name_only, t, ext>>
        w0 == Did(w, "create_backup")
        copy2(source) ==
            IF ~source.exists
            THEN { [w |-> Did(w0, "copy_failed"), ret |-> <<>>] }
            ELSE LET copy == [ts |-> t, ext |-> ext, mtime |-> source.mtime,
                              src |-> filepath, born |-> Sum(w.made) + 1]
                     copied == {f \in w.backups[name_only] : ~(f.ts = t /\ f.ext = ext)}
                                  \cup {copy}
                 IN  { [w |-> [Did(w0, IF o.failed THEN "remove_failed" ELSE "copied")
                                  EXCEPT !.backups[name_only] = o.files,
                                         !.made[name_only] = @ + 1,
                                         !.rm_failed = @ \/ o.failed,
                                         !.total_modifications = @ + 1],
                        ret |-> backup_path]
                       : o \in cleanup_old_backups(copied) }
    IN  UNION { copy2(source) : source \in SourceStates(t) }

\* returns the set of possible [w, ret]; ret is <<>> for "" and the backup
\* path <<directory, timestamp, extension>> otherwise
create_backup(w, filepath, t) ==
    LET filename == basename(filepath)
        name_only == splitext(filename)[1]
        ext == splitext(filename)[2]
        backup_path == <<name_only, t, ext>>
        w0 == Did(w, "create_backup")
        copy2(source) ==
            IF ~source.exists
            THEN { [w |-> Did(w0, "copy_failed"), ret |-> <<>>] }
            ELSE LET copy == [ts |-> t, ext |-> ext, mtime |-> source.mtime,
                              src |-> filepath, born |-> Sum(w.made) + 1]
                     copied == {f \in file_backup_dir(w, name_only) :
                                   ~is_backup_path(f, t, ext)} \cup {copy}
                 IN  { [w |-> [write_file_backup_dir(
                                   Did(w0, IF o.failed THEN "remove_failed" ELSE "copied"),
                                   name_only, o.files)
                                  EXCEPT !.made[name_only] = @ + 1,
                                         !.rm_failed = @ \/ o.failed],
                        ret |-> backup_path]
                       : o \in cleanup_old_backups(copied) }
    IN  UNION { copy2(source) : source \in SourceStates(t) }

----------------------------------------------------------------------------
(* LogManager *)

\* slip: the loop stops one file too early
cleanup_old_resumos_keeps_one_more(files) == remove_oldest(files, max_resumo_files + 1)

cleanup_old_resumos(files) == remove_oldest(files, max_resumo_files)

\* slip: the loop stops one file too early
cleanup_old_logs_keeps_one_more(files) == remove_oldest(files, max_resumo_files + 1)

cleanup_old_logs(files) == remove_oldest(files, max_resumo_files)

\* slip: the tally is cleared by the flush itself
save_daily_summary_resets(w, t) ==
    LET w0 == Did(w, "save_daily_summary")
        resumo == [day |-> w.current_day, total |-> w.total_modifications,
                   total_files |-> Cardinality(DOMAIN w.mod_count_per_file),
                   counts |-> w.mod_count_per_file, mtime |-> t]
        written == {f \in w.resumo_files : f.day # w.current_day} \cup {resumo}
    IN  { Did(w0, "write_resumo_failed") }
        \cup { [(IF o.failed THEN Did(Did(w0, "write_resumo"), "remove_resumo_failed")
                              ELSE Did(w0, "write_resumo"))
                  EXCEPT !.resumo_files = o.files,
                         !.mod_count_per_file = <<>>,
                         !.total_modifications = 0]
               : o \in cleanup_old_resumos(written) }

save_daily_summary(w, t) ==
    LET w0 == Did(w, "save_daily_summary")
        resumo == [day |-> w.current_day, total |-> w.total_modifications,
                   total_files |-> Cardinality(DOMAIN w.mod_count_per_file),
                   counts |-> w.mod_count_per_file, mtime |-> t]
        written == {f \in w.resumo_files : f.day # w.current_day} \cup {resumo}
    IN  { Did(w0, "write_resumo_failed") }
        \cup { [(IF o.failed THEN Did(Did(w0, "write_resumo"), "remove_resumo_failed")
                              ELSE Did(w0, "write_resumo"))
                  EXCEPT !.resumo_files = o.files]
               : o \in cleanup_old_resumos(written) }

\* slip: the early return on an empty log is missing
save_daily_log_writes_empty(w, t) ==
    LET w0 == Did(w, "save_daily_log")
        log == [day |-> w.current_day, entries |-> w.log_entries,
                count |-> Len(w.log_entries), mtime |-> t]
        written == {f \in w.log_files : f.day # w.current_day} \cup {log}
    IN  { Did(w0, "write_log_failed") }
        \cup { [(IF o.failed THEN Did(Did(w0, "write_log"), "remove_log_failed")
                              ELSE Did(w0, "write_log"))
                  EXCEPT !.log_files = o.files]
               : o \in cleanup_old_logs(written) }

save_daily_log(w, t) ==
    LET w0 == Did(w, "save_daily_log")
        log == [day |-> w.current_day, entries |-> w.log_entries,
                count |-> Len(w.log_entries), mtime |-> t]
        written == {f \in w.log_files : f.day # w.current_day} \cup {log}
    IN  IF w.log_entries = <<>>
        THEN { w0 }
        ELSE { Did(w0, "write_log_failed") }
             \cup { [(IF o.failed THEN Did(Did(w0, "write_log"), "remove_log_failed")
                                   ELSE Did(w0, "write_log"))
                       EXCEPT !.log_files = o.files]
                    : o \in cleanup_old_logs(written) }

add_log_entry_rolls_over(w, entry) ==
    [Did(w, "add_log_entry") EXCEPT !.log_entries = Append(@, entry),
                                    !.current_day = entry.day]

add_log_entry(w, entry) ==
    [Did(w, "add_log_entry") EXCEPT !.log_entries = Append(@, entry)]

\* slip: a summary of the date that exists is kept at construction
LogManager_init_keeps_existing(w, d, t) ==
    LET w0 == [w EXCEPT !.mod_count_per_file = <<>>,
                        !.total_modifications = 0,
                        !.current_day = d,
                        !.log_entries = <<>>]
    IN  IF \E f \in w.resumo_files : f.day = d
        THEN { w0 }
        ELSE save_daily_summary(w0, t)

\* LogManager.__init__ on the date d: an empty tally, then save_daily_summary
LogManager_init(w, d, t) ==
    save_daily_summary([w EXCEPT !.mod_count_per_file = <<>>,
                                 !.total_modifications = 0,
                                 !.current_day = d,
                                 !.log_entries = <<>>], t)

\* main.py passes backup_folder_dir, so the attribute is set
backup_folder_dir == TRUE

\* "max_backups = 5" of cleanup_old_folder_backups
max_folder_backups == 5

cleanup_old_folder_backups(files) == remove_oldest(files, max_folder_backups)

\* copytree raises when the destination of this second exists, or when a file
\* cannot be copied, which leaves nothing or a partial tree and skips the
\* cleanup; the copied directory takes the modification time of the source
backup_monitored_folder(w, t) ==
    LET w0 == Did(w, "backup_monitored_folder")
        snapshot(m, c) == [ts |-> t, mtime |-> m, complete |-> c]
        failed == Did(w0, "copytree_failed")
    IN  IF ~backup_folder_dir THEN { w0 }
        ELSE IF \E f \in w.folder_backups : f.ts = t THEN { failed }
        ELSE { failed }
             \cup { [failed EXCEPT !.folder_backups = @ \cup {snapshot(m, FALSE)}]
                    : m \in {0, t} }
             \cup UNION { { [Did(Did(w0, "copytree"), IF o.failed THEN "rmtree_failed"
                                                                 ELSE "cleaned")
                                EXCEPT !.folder_backups = o.files]
                             : o \in cleanup_old_folder_backups(
                                        w.folder_backups \cup {snapshot(m, TRUE)}) }
                           : m \in {0, t} }

\* slip: the date is advanced but the counts are not cleared
reset_tally_keeps_counts(w, d) ==
    [w EXCEPT !.log_entries = <<>>,
              !.current_day = d]

\* lines 55-58: the tally starts over for the date d
reset_tally(w, d) ==
    [w EXCEPT !.mod_count_per_file = <<>>,
              !.total_modifications = 0,
              !.log_entries = <<>>,
              !.current_day = d]

\* slip: the count of the file is set to 1 instead of incremented
count_modification_sets_one(w, filepath, d) ==
    LET name_only == splitext(basename(filepath))[1]
    IN  [w EXCEPT !.total_modifications = @ + 1,
                  !.mod_count_per_file = Put(@, name_only, 1)]

\* lines 60-63: count one modification of filepath, registered on date d
count_modification(w, filepath, d) ==
    LET name_only == splitext(basename(filepath))[1]
    IN  [w EXCEPT !.total_modifications = @ + 1,
                  !.mod_count_per_file = Put(@, name_only, Get(@, name_only, 0) + 1)]

\* slip: the event is counted before the date is compared
register_modification_counts_first(w, filepath, d, t) ==
    LET w0 == [Did(w, "register_modification")
                 EXCEPT !.registered = Append(@, [name |-> name_only_of(filepath), day |-> d])]
        counted == count_modification(w0, filepath, d)
    IN  IF d # w0.current_day
        THEN { reset_tally(w2, d)
               : w2 \in UNION { save_daily_log(w1, t) : w1 \in save_daily_summary(counted, t) } }
        ELSE { counted }

\* slip: a failed write ends the call, nothing is reset and nothing is counted
register_modification_aborts_on_failure(w, filepath, d, t) ==
    LET w0 == [Did(w, "register_modification")
                 EXCEPT !.registered = Append(@, [name |-> name_only_of(filepath), day |-> d])]
        failed(w2) == \E i \in DOMAIN w2.calls :
                          w2.calls[i] \in {"write_resumo_failed", "write_log_failed"}
        flushed == UNION { save_daily_log(w1, t) : w1 \in save_daily_summary(w0, t) }
    IN  IF d # w0.current_day
        THEN { IF failed(w2) THEN w2 ELSE count_modification(reset_tally(w2, d), filepath, d)
               : w2 \in flushed }
        ELSE { count_modification(w0, filepath, d) }

register_modification(w, filepath, d, t) ==
    LET w0 == [Did(w, "register_modification")
                 EXCEPT !.registered = Append(@, [name |-> name_only_of(filepath), day |-> d])]
        flushed ==
            IF d # w0.current_day
            THEN { reset_tally(w2, d)
                   : w2 \in UNION { save_daily_log(w1, t) : w1 \in save_daily_summary(w0, t) } }
            ELSE { w0 }
    IN  { count_modification(w3, filepath, d) : w3 \in flushed }

----------------------------------------------------------------------------
(* FileMonitor *)

\* slip: any file name that has a dot counts as monitored
is_monitored_file_any_dot(filepath) ==
    \E i \in 1..Len(filepath) : filepath[i] = "."

is_monitored_file(filepath) ==
    \E ext \in MONITORED_EXTENSIONS : endswith(lower(filepath), ext)

\* slip: a window of four seconds
too_close_four(t, last_time) == t - last_time < 4

\* slip: an event exactly five seconds later is still suppressed
too_close_inclusive(t, last_time) == t - last_time <= 5

\* the debounce test of line 72
too_close(t, last_time) == t - last_time < 5

\* slip: every accepted event is backed up and counted
needs_backup_always(action) == action \in {"MODIFICADO", "CRIADO", "DELETADO"}

\* the test of line 88
needs_backup(action) == action \in {"MODIFICADO", "CRIADO"}

\* slip: register_modification indented under "if backup_path"
after_backup_registers_on_success(w, filepath, backup_path, d, t) ==
    LET backup_msg == [day |-> d, action |-> "Backup criado", path |-> backup_path]
    IN  IF backup_path # <<>>
        THEN register_modification(add_log_entry(w, backup_msg), filepath, d, t)
        ELSE { w }

\* slip: the backup line is appended whether or not the backup succeeded
after_backup_logs_always(w, filepath, backup_path, d, t) ==
    LET backup_msg == [day |-> d, action |-> "Backup criado", path |-> backup_path]
    IN  register_modification(add_log_entry(w, backup_msg), filepath, d, t)

\* lines 90-95: what follows create_backup, which returned backup_path
after_backup(w, filepath, backup_path, d, t) ==
    LET backup_msg == [day |-> d, action |-> "Backup criado", path |-> backup_path]
        w3 == IF backup_path # <<>> THEN add_log_entry(w, backup_msg) ELSE w
    IN  register_modification(w3, filepath, d, t)

\* slip: the time of the event is recorded before the debounce test, so a
\* suppressed event restarts the window
process_event_records_first(w, event, action, t, d) ==
    IF event.is_directory \/ ~is_monitored_file(event.src_path)
    THEN { w }
    ELSE
    LET last_time == Get(w.last_events, event.src_path, 0)
        w1 == [w EXCEPT !.last_events = Put(@, event.src_path, t)]
    IN  IF too_close(t, last_time)
        THEN { w1 }
        ELSE
        LET message == [day |-> d, action |-> action, path |-> event.src_path]
            w2 == add_log_entry(w1, message)
        IN  IF needs_backup(action)
            THEN UNION { after_backup(r.w, event.src_path, r.ret, d, t)
                         : r \in create_backup(w2, event.src_path, t) }
            ELSE { w2 }

\* slip: create_backup without its try/except, a failed copy ends the handler
process_event_lets_failure_escape(w, event, action, t, d) ==
    IF event.is_directory \/ ~is_monitored_file(event.src_path)
    THEN { w }
    ELSE
    LET last_time == Get(w.last_events, event.src_path, 0)
    IN  IF too_close(t, last_time)
        THEN { w }
        ELSE
        LET w1 == [w EXCEPT !.last_events = Put(@, event.src_path, t)]
            message == [day |-> d, action |-> action, path |-> event.src_path]
            w2 == add_log_entry(w1, message)
        IN  IF needs_backup(action)
            THEN UNION { IF r.ret = <<>>
                         THEN { Did(r.w, "raised") }
                         ELSE after_backup(r.w, event.src_path, r.ret, d, t)
                         : r \in create_backup(w2, event.src_path, t) }
            ELSE { w2 }

\* slip: the time of a Deleted event is not recorded, the window is that of
\* backups only
process_event_deleted_not_recorded(w, event, action, t, d) ==
    IF event.is_directory \/ ~is_monitored_file(event.src_path)
    THEN { w }
    ELSE
    LET last_time == Get(w.last_events, event.src_path, 0)
    IN  IF too_close(t, last_time)
        THEN { w }
        ELSE
        LET w1 == IF needs_backup(action)
                  THEN [w EXCEPT !.last_events = Put(@, event.src_path, t)]
                  ELSE w
            message == [day |-> d, action |-> action, path |-> event.src_path]
            w2 == add_log_entry(w1, message)
        IN  IF needs_backup(action)
            THEN UNION { after_backup(r.w, event.src_path, r.ret, d, t)
                         : r \in create_backup(w2, event.src_path, t) }
            ELSE { w2 }

\* event is [src_path, is_directory]; t and d are the clock and the calendar
\* date read by the handler; returns the set of possible resulting worlds
process_event(w, event, action, t, d) ==
    IF event.is_directory \/ ~is_monitored_file(event.src_path)
    THEN { w }
    ELSE
    LET last_time == Get(w.last_events, event.src_path, 0)
    IN  IF too_close(t, last_time)
        THEN { w }
        ELSE
        LET w1 == [w EXCEPT !.last_events = Put(@, event.src_path, t)]
            message == [day |-> d, action |-> action, path |-> event.src_path]
            w2 == add_log_entry(w1, message)
        IN  IF needs_backup(action)
            THEN UNION { after_backup(r.w, event.src_path, r.ret, d, t)
                         : r \in create_backup(w2, event.src_path, t) }
            ELSE { w2 }

----------------------------------------------------------------------------
(* The state machine *)

Install(w) ==
    /\ last_events' = w.last_events
    /\ backups' = w.backups
    /\ mod_count_per_file' = w.mod_count_per_file
    /\ total_modifications' = w.total_modifications
    /\ current_day' = w.current_day
    /\ log_entries' = w.log_entries
    /\ resumo_files' = w.resumo_files
    /\ log_files' = w.log_files
    /\ calls' = w.calls
    /\ made' = w.made
    /\ rm_failed' = w.rm_failed
    /\ registered' = w.registered
    /\ folder_backups' = w.folder_backups

\* LogManager.__init__ on empty directories, at StartTime on day 0
Constructed ==
    LET blank == [ last_events |-> <<>>, backups |-> [n \in DirNames |-> {}],
                   mod_count_per_file |-> <<>>, total_modifications |-> 0,
                   current_day |-> 0, log_entries |-> <<>>,
                   resumo_files |-> {}, log_files |-> {},
                   calls |-> <<>>, made |-> [n \in DirNames |-> 0],
                   rm_failed |-> FALSE, registered |-> <<>>, folder_backups |-> {} ]
    IN  save_daily_summary(blank, StartTime)

Init ==
    /\ now = StartTime
    /\ today = 0
    /\ ev = NoEvent
    /\ accepted = 0
    /\ accepted_days = {}
    /\ main_pc = "loop"
    /\ main_done = <<>>
    /\ last_accepted = <<>>
    /\ \E w \in Constructed :
          /\ last_events = w.last_events
          /\ backups = w.backups
          /\ mod_count_per_file = w.mod_count_per_file
          /\ total_modifications = w.total_modifications
          /\ current_day = w.current_day
          /\ log_entries = w.log_entries
          /\ resumo_files = w.resumo_files
          /\ log_files = w.log_files
          /\ calls = w.calls
          /\ made = w.made
          /\ rm_failed = w.rm_failed
          /\ registered = w.registered
          /\ folder_backups = w.folder_backups

\* a second passes
Tick ==
    /\ now < MaxTime
    /\ now' = now + 1
    /\ ev' = NoEvent
    /\ calls' = <<>>
    /\ UNCHANGED <<today, last_events, backups, mod_count_per_file, total_modifications,
                   current_day, log_entries, resumo_files, log_files, made, rm_failed,
                   accepted, registered, accepted_days, folder_backups, main_pc, main_done,
                   last_accepted>>

\* a second passes and the calendar date changes
Midnight ==
    /\ now < MaxTime
    /\ today < MaxDay
    /\ now' = now + 1
    /\ today' = today + 1
    /\ ev' = NoEvent
    /\ calls' = <<>>
    /\ UNCHANGED <<last_events, backups, mod_count_per_file, total_modifications,
                   current_day, log_entries, resumo_files, log_files, made, rm_failed,
                   accepted, registered, accepted_days, folder_backups, main_pc, main_done,
                   last_accepted>>

\* the debounce window passes
Wait ==
    /\ now + 5 <= MaxTime
    /\ now' = now + 5
    /\ ev' = NoEvent
    /\ calls' = <<>>
    /\ UNCHANGED <<today, last_events, backups, mod_count_per_file, total_modifications,
                   current_day, log_entries, resumo_files, log_files, made, rm_failed,
                   accepted, registered, accepted_days, folder_backups, main_pc, main_done,
                   last_accepted>>

\* the watcher thread delivers one event to the handler
HandleWithin(events, action, budget) ==
    /\ accepted < budget
    /\ main_pc \notin {"init", "stopped"}
    /\ \E event \in events :
        \E w \in process_event(World, event, action, now, today) :
            /\ Install(w)
            /\ ev' = [src_path |-> event.src_path, is_directory |-> event.is_directory,
                      action |-> action]
            /\ accepted' = IF w.calls # <<>> THEN accepted + 1 ELSE accepted
            /\ accepted_days' = IF w.calls # <<>> THEN accepted_days \cup {today}
                                                  ELSE accepted_days
            /\ last_accepted' = IF w.calls # <<>>
                                THEN Put(last_accepted, event.src_path,
                                         [action |-> action, time |-> now])
                                ELSE last_accepted
            /\ UNCHANGED <<now, today, main_pc, main_done>>

Handle(events, action) == HandleWithin(events, action, MaxAccepted)

on_modified(events) == Handle(events, "MODIFICADO")

on_created(events) == Handle(events, "CRIADO")

on_deleted(events) == Handle(events, "DELETADO")

\* slip: the flushes are moved before the snapshot
next_statement_flush_first(pc) ==
    CASE pc = "loop" -> "save_daily_log"
      [] pc = "save_daily_log" -> "save_daily_summary"
      [] pc = "save_daily_summary" -> "backup_monitored_folder"
      [] pc = "backup_monitored_folder" -> "observer.stop"
      [] pc = "observer.stop" -> "stopped"

\* the statements of the KeyboardInterrupt handler, in program order
next_statement(pc) ==
    CASE pc = "loop" -> "backup_monitored_folder"
      [] pc = "backup_monitored_folder" -> "save_daily_log"
      [] pc = "save_daily_log" -> "save_daily_summary"
      [] pc = "save_daily_summary" -> "observer.stop"
      [] pc = "observer.stop" -> "stopped"

\* the main thread executes the statement it is at, with the outcomes worlds
MainStep(statement, worlds) ==
    /\ main_pc = statement
    /\ \E w \in worlds : Install(w)
    /\ main_pc' = next_statement(main_pc)
    /\ main_done' = IF statement = "loop" THEN main_done ELSE Append(main_done, statement)
    /\ ev' = NoEvent
    /\ UNCHANGED <<now, today, accepted, accepted_days, last_accepted>>

\* Ctrl+C interrupts time.sleep(1); the observer thread is alive
KeyboardInterrupt == MainStep("loop", {World})

shutdown_backup_monitored_folder ==
    MainStep("backup_monitored_folder", backup_monitored_folder(World, now))

shutdown_save_daily_log == MainStep("save_daily_log", save_daily_log(World, now))

shutdown_save_daily_summary ==
    MainStep("save_daily_summary", save_daily_summary(World, now))

\* observer.stop(), joined in the finally block: no handler runs afterwards
observer_stop == MainStep("observer.stop", {World})

\* the event coordinator: one monitored file, one file that is not monitored, a directory
Next ==
    \/ Tick
    \/ Midnight
    \/ on_modified(CoordinatorEvents)
    \/ on_created(CoordinatorEvents)
    \/ on_deleted(CoordinatorEvents)

Spec == Init /\ [][Next]_vars

\* the backup store: three files that share one backup directory
NextBackup ==
    \/ Tick
    \/ on_modified(BackupEvents)

SpecBackup == Init /\ [][NextBackup]_vars

\* Watched files named after the directories of main's layout.
on_modified_layout == on_modified(LayoutEvents)

Tick_layout == Tick

NextLayout ==
    \/ Tick_layout
    \/ on_modified_layout

SpecLayout == Init /\ [][NextLayout]_vars

\* the activity ledger: two files, counted over several days
NextLedger ==
    \/ Wait
    \/ Midnight
    \/ on_modified(LedgerEvents)
    \/ on_deleted(LedgerEvents)

SpecLedger == Init /\ [][NextLedger]_vars

\* the backup store over more events, so that a cleanup can fail repeatedly
on_modified_retention == HandleWithin(BackupEvents, "MODIFICADO", MaxAccepted + 1)

NextRetention ==
    \/ Wait
    \/ on_modified_retention

SpecRetention == Init /\ [][NextRetention]_vars

ShutdownEvents == {File(PathA)}

\* the directories as earlier runs of the program have left them: summaries
\* and logs of the days before, a summary written earlier today, snapshots
EarlierDays == (0 - max_resumo_files)..(-1)

EarlierSummary(d) ==
    [day |-> d, total |-> 0, total_files |-> 0, counts |-> <<>>, mtime |-> StartTime + d - 1]

SummaryOfToday ==
    [day |-> 0, total |-> 2, total_files |-> 1, counts |-> Put(<<>>, name_only_of(PathA), 2),
     mtime |-> StartTime - 1]

SummaryOfYesterday ==
    [day |-> -1, total |-> 1, total_files |-> 1, counts |-> Put(<<>>, name_only_of(PathA), 1),
     mtime |-> StartTime - 2]

EarlierLog(d) ==
    [day |-> d, entries |-> <<[day |-> d, action |-> "MODIFICADO", path |-> PathA]>>,
     count |-> 1, mtime |-> StartTime + d - 1]

ArchiveSummaries ==
    { {},
      {EarlierSummary(d) : d \in EarlierDays},
      {SummaryOfYesterday, SummaryOfToday} }

ArchiveLogs == { {}, {EarlierLog(d) : d \in EarlierDays} }

\* snapshots of a watched root that has not changed since: all carry its
\* modification time
ArchiveSnapshots ==
    { {}, {[ts |-> StartTime - k, mtime |-> 0, complete |-> TRUE] : k \in 1..max_folder_backups} }

\* main() before it constructs the LogManager
InitArchive ==
    /\ now = StartTime
    /\ today = 0
    /\ ev = NoEvent
    /\ accepted = 0
    /\ accepted_days = {}
    /\ main_pc = "init"
    /\ main_done = <<>>
    /\ last_accepted = <<>>
    /\ last_events = <<>>
    /\ backups = [n \in DirNames |-> {}]
    /\ mod_count_per_file = <<>>
    /\ total_modifications = 0
    /\ current_day = 0
    /\ log_entries = <<>>
    /\ resumo_files \in ArchiveSummaries
    /\ log_files \in ArchiveLogs
    /\ folder_backups \in ArchiveSnapshots
    /\ calls = <<>>
    /\ made = [n \in DirNames |-> 0]
    /\ rm_failed = FALSE
    /\ registered = <<>>

\* main() constructs the LogManager
construct ==
    /\ main_pc = "init"
    /\ \E w \in LogManager_init(World, today, now) : Install(w)
    /\ main_pc' = "loop"
    /\ ev' = NoEvent
    /\ UNCHANGED <<now, today, accepted, accepted_days, last_accepted, main_done>>

\* an event delivered while main() sleeps in its loop
on_modified_in_loop ==
    /\ main_pc = "loop"
    /\ on_modified(ShutdownEvents)

\* time passes while main() sleeps in its loop
Wait_in_loop ==
    /\ main_pc = "loop"
    /\ Wait

Midnight_in_loop ==
    /\ main_pc = "loop"
    /\ Midnight

NextArchive ==
    \/ construct
    \/ Wait_in_loop
    \/ Midnight_in_loop
    \/ on_modified_in_loop
    \/ KeyboardInterrupt
    \/ shutdown_backup_monitored_folder
    \/ shutdown_save_daily_log
    \/ shutdown_save_daily_summary
    \/ observer_stop

SpecArchive == InitArchive /\ [][NextArchive]_vars

\* the shutdown: the watcher thread keeps delivering events while the main
\* thread runs the KeyboardInterrupt handler
NextShutdown ==
    \/ Wait
    \/ on_modified(ShutdownEvents)
    \/ KeyboardInterrupt
    \/ shutdown_backup_monitored_folder
    \/ shutdown_save_daily_log
    \/ shutdown_save_daily_summary
    \/ observer_stop

SpecShutdown == Init /\ [][NextShutdown]_vars

----------------------------------------------------------------------------
(* Properties of the event coordinator *)

Count(seq, x) == Cardinality({i \in DOMAIN seq : seq[i] = x})

\* the path ends, case-insensitively, with one of the monitored extensions
HasMonitoredSuffix(path) ==
    \E ext \in MONITORED_EXTENSIONS :
        /\ Len(ext) <= Len(path)
        /\ \A i \in 1..Len(ext) : lower_char(path[Len(path) - Len(ext) + i]) = ext[i]

\* the step handles the event ev', which passes the filter
HandlesFiltered == ev' # NoEvent /\ ~ev'.is_directory /\ HasMonitoredSuffix(ev'.src_path)

\* C1: an event that passes the filter and arrives less than 5 seconds after
\* the last accepted event for the same path is suppressed: no backup, no
\* audit line, no RegisterModification call, no change of the debounce table.
C1_SuppressedWithinWindow ==
    [][ ( /\ HandlesFiltered
          /\ ev'.src_path \in DOMAIN last_events
          /\ now - last_events[ev'.src_path] < 5 )
        => ( /\ calls' = <<>>
             /\ UNCHANGED <<last_events, backups, made, log_entries, total_modifications,
                            mod_count_per_file, registered, resumo_files, log_files>> )
      ]_vars

\* a suppressed event has just been handled, four seconds after the accepted one
C1_Witness ==
    /\ ev # NoEvent /\ ~ev.is_directory /\ HasMonitoredSuffix(ev.src_path)
    /\ ev.src_path \in DOMAIN last_events
    /\ now - last_events[ev.src_path] = 4
    /\ calls = <<>>

\* C2: a Created/Modified event that passes the filter and arrives at least 5
\* seconds (exactly 5 included) after the last accepted event for the same path
\* is accepted, and triggers one CreateBackup call and one RegisterModification call.
C2_AcceptedAfterWindow ==
    [][ ( /\ HandlesFiltered
          /\ ev'.action \in {"CRIADO", "MODIFICADO"}
          /\ ev'.src_path \in DOMAIN last_events
          /\ now - last_events[ev'.src_path] >= 5 )
        => ( /\ last_events'[ev'.src_path] = now
             /\ accepted' = accepted + 1
             /\ Count(calls', "create_backup") = 1
             /\ Count(calls', "register_modification") = 1
             /\ Len(registered') = Len(registered) + 1 )
      ]_vars

\* two Modified/Created events on one path, exactly five seconds apart, both
\* backed up (or attempted) and both registered on the same day
C2_Witness ==
    /\ ev # NoEvent /\ ev.action \in {"CRIADO", "MODIFICADO"}
    /\ Count(calls, "create_backup") = 1
    /\ Count(calls, "register_modification") = 1
    /\ now = StartTime + 5
    /\ last_events[ev.src_path] = now
    /\ Len(registered) = 2
    /\ total_modifications = 2

\* C3: an event for a directory, or for a path that does not end with a
\* monitored extension, changes neither the debounce table, nor the event log,
\* nor the counts, nor any backup directory.
C3_FilteredOut ==
    [][ ( /\ ev' # NoEvent
          /\ ev'.is_directory \/ ~HasMonitoredSuffix(ev'.src_path) )
        => ( /\ calls' = <<>>
             /\ UNCHANGED <<last_events, log_entries, total_modifications,
                            mod_count_per_file, backups>> )
      ]_vars

\* a file that is not monitored has been rejected after an event was accepted
C3_Witness ==
    /\ ev # NoEvent
    /\ ~ev.is_directory /\ ~HasMonitoredSuffix(ev.src_path)
    /\ calls = <<>>
    /\ accepted > 0
    /\ log_entries # <<>>

\* the audit line of the event that the step handles
AuditLine == [day |-> today, action |-> ev'.action, path |-> ev'.src_path]

\* C6: when CreateBackup fails for an accepted Created/Modified event, the
\* handler goes on: the event's audit line is appended, no backup line is
\* appended, no second backup is attempted, and RegisterModification is
\* invoked exactly once.
C6_FailedBackupStillRegistered ==
    [][ Count(calls', "copy_failed") > 0
        => ( /\ Len(calls') >= 4
             /\ SubSeq(calls', 1, 4) = <<"add_log_entry", "create_backup", "copy_failed",
                                         "register_modification">>
             /\ Count(calls', "add_log_entry") = 1
             /\ Count(calls', "create_backup") = 1
             /\ Count(calls', "register_modification") = 1
             /\ Len(registered') = Len(registered) + 1
             /\ backups' = backups
             /\ today = current_day => log_entries' = Append(log_entries, AuditLine)
             /\ Count(calls', "write_log") > 0
                   => \E f \in log_files' :
                         f.day = current_day /\ f.entries = Append(log_entries, AuditLine) )
      ]_vars

\* a backup has failed and the modification is counted
C6_Witness ==
    /\ ev # NoEvent /\ ev.action \in {"CRIADO", "MODIFICADO"}
    /\ Count(calls, "copy_failed") = 1
    /\ Count(calls, "register_modification") = 1
    /\ total_modifications = 2
    /\ Len(log_entries) = 3

\* C7: an accepted Deleted event appends exactly one audit line and triggers
\* neither a CreateBackup call nor a change of totalModifications or perFileCounts.
C7_DeletedOnlyLogged ==
    [][ ( /\ HandlesFiltered
          /\ ev'.action = "DELETADO"
          /\ now - Get(last_events, ev'.src_path, 0) >= 5 )
        => ( /\ log_entries' = Append(log_entries, AuditLine)
             /\ calls' = <<"add_log_entry">>
             /\ UNCHANGED <<total_modifications, mod_count_per_file, registered,
                            current_day, backups, made, resumo_files, log_files>> )
      ]_vars

\* a Deleted event has been accepted after a modification was counted
C7_Witness ==
    /\ ev # NoEvent /\ ev.action = "DELETADO"
    /\ calls = <<"add_log_entry">>
    /\ last_events[ev.src_path] = now
    /\ total_modifications = 1
    /\ log_entries[Len(log_entries)].action = "DELETADO"

----------------------------------------------------------------------------
(* Properties of the backup store *)

Min(a, b) == IF a <= b THEN a ELSE b

\* C4: after N successful CreateBackup calls for a stem, starting from an
\* empty backup directory and with no deletion failure, the directory of the
\* stem holds exactly min(N, maxBackups) files.
C4_CountIsMinOfCallsAndCap ==
    ~rm_failed =>
        \A n \in DirNames : Cardinality(backups[n]) = Min(made[n], max_backups)

\* the backups of directory n that the step removes (not those it overwrites)
Evicted(n) ==
    {f \in backups[n] : ~\E g \in backups'[n] : g.ts = f.ts /\ g.ext = f.ext}

\* C5: rotation evicts in order of creation: after a successful CreateBackup
\* the backup just created is retained, and every evicted backup was created
\* before every retained one.
C5_EvictsInCreationOrder ==
    [][ \A n \in DirNames :
          (made'[n] = made[n] + 1 /\ ~rm_failed')
          => ( /\ \E f \in backups'[n] : f.born = Sum(made')
               /\ \A gone \in Evicted(n), kept \in backups'[n] : gone.born < kept.born )
      ]_vars

----------------------------------------------------------------------------
(* Properties of the activity ledger *)

\* the RegisterModification calls made on date dy
RegisteredOn(dy) == {i \in DOMAIN registered : registered[i].day = dy}

\* C8: totalModifications equals the sum of the perFileCounts in every state;
\* after M RegisterModification calls within one calendar day across K stems,
\* totalModifications = M and perFileCounts has exactly K keys.
C8_TotalIsSumOfCounts ==
    /\ total_modifications = Sum(mod_count_per_file)
    /\ (\A i, j \in DOMAIN registered : registered[i].day = registered[j].day)
          => /\ total_modifications = Len(registered)
             /\ Cardinality(DOMAIN mod_count_per_file)
                   = Cardinality({registered[i].name : i \in DOMAIN registered})

\* three modifications of two stems on one day
C8_Witness ==
    /\ \A i \in DOMAIN registered : registered[i].day = current_day
    /\ Len(registered) = 3
    /\ total_modifications = 3
    /\ Cardinality(DOMAIN mod_count_per_file) = 2

\* C9: when the date has changed since the previous RegisterModification call,
\* the call flushes once: the summary file it writes (one write, which the
\* operating system may refuse) is the one of the prior tally day and holds the
\* prior counts without the new event; then the counts are reset, the tally's
\* day becomes today and the new event is counted, so that afterwards
\* totalModifications = 1 and perFileCounts holds only the new event's stem.
C9_RolloverFlushesThenCounts ==
    [][ (Len(registered') = Len(registered) + 1 /\ today # current_day)
        => ( /\ Count(calls', "save_daily_summary") = 1
             /\ Count(calls', "write_resumo") + Count(calls', "write_resumo_failed") = 1
             /\ Count(calls', "write_resumo") = 1
                   => /\ \E f \in resumo_files' :
                            /\ f.day = current_day
                            /\ f.total = total_modifications
                            /\ f.counts = mod_count_per_file
                            /\ f.mtime = now
                      /\ \A g \in resumo_files' \ resumo_files : g.day = current_day
             /\ Count(calls', "write_resumo") = 0 => resumo_files' = resumo_files
             /\ current_day' = today
             /\ total_modifications' = 1
             /\ DOMAIN mod_count_per_file' = {name_only_of(ev'.src_path)}
             /\ mod_count_per_file'[name_only_of(ev'.src_path)] = 1 )
      ]_vars

\* a rollover has written the summary of a day with two modifications
C9_Witness ==
    /\ Count(calls, "register_modification") = 1
    /\ Count(calls, "write_resumo") = 1
    /\ total_modifications = 1
    /\ current_day = today
    /\ \E f \in resumo_files : f.day < current_day /\ f.total = 2 /\ f.mtime = now

\* C10: every modification counted in totalModifications and perFileCounts
\* was registered on the tally's day; counts of two days are never aggregated.
C10_TallyOfOneDay ==
    /\ total_modifications = Cardinality(RegisteredOn(current_day))
    /\ \A n \in DirNames :
          Get(mod_count_per_file, n, 0)
             = Cardinality({i \in RegisteredOn(current_day) : registered[i].name = n})

\* modifications of an earlier day were registered, and the tally holds those of today
C10_Witness ==
    /\ \E i \in DOMAIN registered : registered[i].day < current_day
    /\ RegisteredOn(current_day) # {}
    /\ total_modifications >= 1

\* C11: the event log in memory never holds lines of more than one calendar
\* day, and every line of the consolidated log file of day D belongs to an
\* event accepted on day D.
C11_LogOfOneDay ==
    /\ \A i, j \in DOMAIN log_entries : log_entries[i].day = log_entries[j].day
    /\ \A f \in log_files : \A i \in DOMAIN f.entries : f.entries[i].day = f.day


\* C12: constructing the ledger writes a summary file of the current date with
\* total 0, and a day in which no event is accepted gets no consolidated log
\* file, neither at construction nor at any later flush.
C12_NoLogForQuietDay ==
    /\ ( now = StartTime /\ main_pc = "loop" /\ accepted = 0
          /\ calls = <<"save_daily_summary", "write_resumo">> )
         => \E f \in resumo_files : f.day = today /\ f.total = 0
    /\ \A f \in log_files : f.day \in accepted_days


----------------------------------------------------------------------------
(* Properties of the shutdown *)

Before(seq, x, y) ==
    \A j \in DOMAIN seq : seq[j] = y => \E i \in 1..(j - 1) : seq[i] = x

IsPrefix(s, t) == Len(s) <= Len(t) /\ \A i \in DOMAIN s : s[i] = t[i]

\* C13 as stated: on a termination signal the final flush of the summary and
\* of the log completes first, then the snapshot of the watched root runs,
\* then the watcher is released.
C13_FlushThenSnapshotThenRelease ==
    /\ Before(main_done, "save_daily_summary", "backup_monitored_folder")
    /\ Before(main_done, "save_daily_log", "backup_monitored_folder")
    /\ Before(main_done, "backup_monitored_folder", "observer.stop")

\* C13 amended: on a termination signal the snapshot of the watched root runs
\* first, then the final flush of the log, then the final flush of the
\* summary, then the watcher is released.
C13_SnapshotThenFlushThenRelease ==
    /\ IsPrefix(main_done, <<"backup_monitored_folder", "save_daily_log",
                             "save_daily_summary", "observer.stop">>)
    /\ main_pc = "stopped" => Len(main_done) = 4

\* the program has shut down after an accepted event; the snapshot was taken
\* and the summary was written
C13_Witness ==
    /\ main_pc = "stopped"
    /\ accepted > 0
    /\ \E f \in folder_backups : f.complete
    /\ \E f \in resumo_files : f.total > 0


\* C14: once the shutdown has begun the coordinator accepts no further event,
\* so no handler runs between or after the final flushes of the main thread.
C14_NoEventOnceShutdownBegan ==
    [][ main_pc # "loop" => accepted' = accepted ]_vars


----------------------------------------------------------------------------
(* Further properties of the event coordinator *)

\* C15: the debounce entry of a path changes only when an event for that path
\* is accepted, and is then set to the time of that event; a filtered or
\* suppressed event leaves the whole table unchanged, so an event is accepted
\* exactly when it comes 5 seconds or more after the last accepted one.
C15_TableChangesOnlyOnAccept ==
    [][ /\ \A p \in Paths :
              Get(last_events', p, 0) # Get(last_events, p, 0)
              => ( /\ ev'.src_path = p
                   /\ accepted' = accepted + 1
                   /\ last_events'[p] = now )
        /\ DOMAIN last_events \subseteq DOMAIN last_events'
        /\ (ev' # NoEvent /\ accepted' = accepted) => last_events' = last_events
        /\ ( HandlesFiltered /\ ev'.src_path \in DOMAIN last_events )
              => ( accepted' = accepted + 1 <=> now - last_events[ev'.src_path] >= 5 )
      ]_vars

\* of the Modified events on one path at T0, T0+1 and T0+6, the second has
\* just been suppressed and the table still holds T0
C15_Witness ==
    /\ ev # NoEvent /\ ev.action = "MODIFICADO" /\ HasMonitoredSuffix(ev.src_path)
    /\ ev.src_path \in DOMAIN last_events
    /\ last_events[ev.src_path] = StartTime
    /\ now = StartTime + 1
    /\ accepted = 1
    /\ calls = <<>>


\* the audit line that names the backup made for the event the step handles
BackupLine ==
    [day |-> today, action |-> "Backup criado",
     path |-> <<name_only_of(ev'.src_path), now, ext_of(ev'.src_path)>>]

\* C16: for an accepted Created/Modified event the handler first appends the
\* event's audit line, then invokes CreateBackup once, then appends a second
\* audit line naming the backup path if and only if the backup succeeded, then
\* invokes RegisterModification once.
C16_OrderOfAcceptedEvent ==
    [][ ( /\ ev' # NoEvent
          /\ ev'.action \in {"CRIADO", "MODIFICADO"}
          /\ accepted' = accepted + 1 )
        => ( /\ Len(calls') >= 4
             /\ SubSeq(calls', 1, 2) = <<"add_log_entry", "create_backup">>
             /\ Count(calls', "create_backup") = 1
             /\ Count(calls', "register_modification") = 1
             /\ IF calls'[3] = "copy_failed"
                THEN /\ calls'[4] = "register_modification"
                     /\ Count(calls', "add_log_entry") = 1
                     /\ today = current_day => log_entries' = Append(log_entries, AuditLine)
                ELSE /\ calls'[3] \in {"copied", "remove_failed"}
                     /\ Len(calls') >= 5
                     /\ calls'[4] = "add_log_entry"
                     /\ calls'[5] = "register_modification"
                     /\ Count(calls', "add_log_entry") = 2
                     /\ today = current_day
                          => log_entries' = log_entries \o <<AuditLine, BackupLine>> )
      ]_vars

\* a Created event has been backed up: its line, the backup, the backup's
\* line and the registration, in this order
C16_Witness ==
    /\ ev # NoEvent /\ ev.action = "CRIADO"
    /\ calls = <<"add_log_entry", "create_backup", "copied", "add_log_entry",
                 "register_modification">>
    /\ Len(log_entries) >= 2
    /\ log_entries[Len(log_entries)].action = "Backup criado"
    /\ log_entries[Len(log_entries) - 1].action = "CRIADO"


----------------------------------------------------------------------------
(* Further properties of the backup store *)

\* C17: as long as no deletion has failed, every backup directory holds at
\* most max_backups files between operations, also when several source files
\* share the directory.
C17_AtMostMaxBackups ==
    ~rm_failed => \A n \in DirNames : Cardinality(backups[n]) <= max_backups

\* three backups of two source files went into one directory, the oldest was
\* removed and the directory is at its cap
C17_Witness ==
    \E n \in DirNames :
        /\ ~rm_failed
        /\ made[n] = max_backups + 1
        /\ Cardinality(backups[n]) = max_backups
        /\ \E f, g \in backups[n] : f.src # g.src


\* C18 as stated: after a deletion has failed during retention cleanup, the
\* directory holds at most one file more than its cap, and the next cleanup in
\* which no deletion fails brings it back to at most the cap.
C18_AtMostOneOverCap ==
    [][ \A n \in DirNames :
          made'[n] = made[n] + 1
          => IF Count(calls', "remove_failed") > 0
             THEN Cardinality(backups'[n]) <= max_backups + 1
             ELSE Cardinality(backups'[n]) <= max_backups
      ]_vars

\* C18 amended: a cleanup in which a deletion fails leaves the directory with
\* at most one file more than it held before the operation, and a cleanup in
\* which no deletion fails leaves at most max_backups files.
C18_OneMorePerFailedCleanup ==
    [][ \A n \in DirNames :
          made'[n] = made[n] + 1
          => IF Count(calls', "remove_failed") > 0
             THEN Cardinality(backups'[n]) <= Cardinality(backups[n]) + 1
             ELSE Cardinality(backups'[n]) <= max_backups
      ]_vars

\* a deletion failed in one cleanup, and the next cleanup, in which no
\* deletion failed, has brought the directory back to its cap
C18_Witness ==
    \E n \in DirNames :
        /\ rm_failed
        /\ Count(calls, "copied") = 1
        /\ made[n] = max_backups + 2
        /\ Cardinality(backups[n]) = max_backups


\* C19: when a deletion fails during the rotation that follows a successful
\* copy, CreateBackup still reports the new backup's path, the new backup
\* file is still in the directory, and the backup audit line is still emitted.
C19_FailedRotationKeepsNewBackup ==
    [][ Count(calls', "remove_failed") > 0
        => ( /\ Count(calls', "add_log_entry") = 2
             /\ today = current_day => log_entries'[Len(log_entries')] = BackupLine
             /\ \E f \in backups'[name_only_of(ev'.src_path)] :
                   /\ f.ts = now
                   /\ f.ext = ext_of(ev'.src_path)
                   /\ f.born = Sum(made) + 1 )
      ]_vars


----------------------------------------------------------------------------
(* Further properties of the activity ledger *)

\* the step has attempted to write a file and the write has failed
FlushFailed ==
    Count(calls', "write_resumo_failed") + Count(calls', "write_log_failed") > 0

\* C20: when writing the summary or the consolidated log fails during the
\* rollover inside RegisterModification, the total, the per-file counts and
\* the event log are still reset, the tally's day is set to today and the
\* triggering event is counted; a file that could not be written is not changed.
C20_RolloverSurvivesFailedFlush ==
    [][ ( Count(calls', "register_modification") = 1 /\ FlushFailed )
        => ( /\ today # current_day
             /\ current_day' = today
             /\ total_modifications' = 1
             /\ mod_count_per_file' = Put(<<>>, name_only_of(ev'.src_path), 1)
             /\ log_entries' = <<>>
             /\ Count(calls', "write_resumo_failed") > 0 => resumo_files' = resumo_files
             /\ Count(calls', "write_log_failed") > 0 => log_files' = log_files
             /\ registered'[Len(registered')] =
                    [name |-> name_only_of(ev'.src_path), day |-> today] )
      ]_vars

\* two modifications were counted on one day; the summary of that day could
\* not be written at the rollover, and the tally holds the new day's event only
C20_Witness ==
    /\ Count(calls, "write_resumo_failed") = 1
    /\ Count(calls, "register_modification") = 1
    /\ Len(registered) = 3
    /\ registered[1].day = registered[2].day
    /\ registered[2].day < today
    /\ current_day = today
    /\ total_modifications = 1
    /\ \A f \in resumo_files : f.total = 0


\* the step has made a backup and create_backup has returned its path
BackupReturned == Count(calls', "copied") + Count(calls', "remove_failed") > 0

\* C30: whenever CreateBackup returns a backup path, the backup it has just
\* created is in the directory: the rotation it triggers never deletes it,
\* whatever the modification times of the source and of the older backups.
C30_NewBackupSurvivesRotation ==
    [][ BackupReturned
        => \E f \in backups'[name_only_of(ev'.src_path)] :
              /\ f.born = Sum(made) + 1
              /\ f.ts = now
              /\ f.ext = ext_of(ev'.src_path)
      ]_vars


\* what create_backup may not change: the debounce table, the tally, the
\* summary, log and snapshot directories, and the other backup directories
SameOutsideBackupDirectory(w, v, name_only) ==
    /\ w.last_events = v.last_events
    /\ w.mod_count_per_file = v.mod_count_per_file
    /\ w.total_modifications = v.total_modifications
    /\ w.current_day = v.current_day
    /\ w.log_entries = v.log_entries
    /\ name_only # resumo_dir_name => w.resumo_files = v.resumo_files
    /\ name_only # log_consolidado_dir_name => w.log_files = v.log_files
    /\ w.folder_backups = v.folder_backups
    /\ \A n \in DirNames \ {name_only} : w.backups[n] = v.backups[n]

\* C27: CreateBackup, whether it succeeds or fails, changes files only in the
\* backup directory of the file's stem, under the backup root; it changes
\* neither the debounce table nor the tally.
C27_CreateBackupFrame ==
    [][ Count(calls', "create_backup") > 0
        => ( /\ \A r \in create_backup(World, ev'.src_path, now) :
                    SameOutsideBackupDirectory(r.w, World, name_only_of(ev'.src_path))
             /\ \A n \in DirNames \ {name_only_of(ev'.src_path)} : backups'[n] = backups[n]
             /\ folder_backups' = folder_backups
             /\ Count(calls', "copy_failed") > 0 => backups' = backups )
      ]_vars

\* backups of two stems exist; the last step backed up one of them, once
\* successfully and, before, once without success
C27_Witness ==
    /\ Count(calls, "copied") = 1
    /\ \A n \in {name_only_of(PathA), name_only_of(PathB)} : backups[n] # {}
    /\ Len(registered) = 3
    /\ Sum(made) = 2


\* C26: no failure of a copy, a file write or a deletion escapes the handler:
\* the handler runs to its end, nothing is retried, and the debounce table and
\* the tally are left as they are when nothing fails, so that the next event
\* is processed as if the failure had not happened.
C26_NoFailureEscapes ==
    [][ ( ev' # NoEvent /\ accepted' = accepted + 1 )
        => ( /\ \A i \in DOMAIN calls' : calls'[i] # "raised"
             /\ last_events' = Put(last_events, ev'.src_path, now)
             /\ Count(calls', "create_backup") <= 1
             /\ ev'.action \in {"CRIADO", "MODIFICADO"}
                  => /\ Count(calls', "create_backup") = 1
                     /\ Count(calls', "register_modification") = 1
                     /\ calls'[Len(calls')] \in
                            IF today = current_day
                            THEN {"register_modification"}
                            ELSE {"save_daily_log", "write_log", "write_log_failed",
                                  "remove_log_failed"}
                     /\ current_day' = today
             /\ \A w \in process_event(World, [src_path |-> ev'.src_path,
                                                is_directory |-> ev'.is_directory],
                                        ev'.action, now, today) :
                    /\ w.last_events = last_events'
                    /\ w.mod_count_per_file = mod_count_per_file'
                    /\ w.total_modifications = total_modifications'
                    /\ w.current_day = current_day' )
      ]_vars

\* the backup of the first event failed, and the next event has been backed
\* up and counted
C26_Witness ==
    /\ ev # NoEvent
    /\ Count(calls, "copied") = 1
    /\ Len(registered) = 2
    /\ Sum(made) = 1
    /\ total_modifications = 2


\* C29: the debounce window of a path is shared by all kinds of event: an
\* event of any kind that comes less than 5 seconds after an accepted event of
\* any kind on the same path, a Deleted one included, is suppressed, with no
\* backup and no change of the tally.
C29_WindowSharedByAllKinds ==
    [][ ( /\ HandlesFiltered
          /\ ev'.src_path \in DOMAIN last_accepted
          /\ now - last_accepted[ev'.src_path].time < 5 )
        => ( /\ calls' = <<>>
             /\ accepted' = accepted
             /\ UNCHANGED <<last_events, backups, made, log_entries, total_modifications,
                            mod_count_per_file, registered>> )
      ]_vars

\* a Created event two seconds after an accepted Deleted event on the same
\* path has just been suppressed
C29_Witness ==
    /\ ev # NoEvent /\ ev.action = "CRIADO"
    /\ ev.src_path \in DOMAIN last_accepted
    /\ last_accepted[ev.src_path].action = "DELETADO"
    /\ now - last_accepted[ev.src_path].time = 2
    /\ calls = <<>>
    /\ total_modifications = 0


----------------------------------------------------------------------------
(* Properties of the summary, log and snapshot directories *)

\* the step has written a summary and no deletion of a summary has failed
SummaryFlushed ==
    Count(calls', "write_resumo") = 1 /\ Count(calls', "remove_resumo_failed") = 0

\* C21: after every FlushSummary that succeeds, deletions included, the
\* summary directory holds at most max_resumo_files files, every file removed
\* was no newer than every file kept, and the summary just written is kept.
C21_SummaryRetention ==
    [][ SummaryFlushed
        => ( /\ Cardinality(resumo_files') <= max_resumo_files
             /\ \E f \in resumo_files' :
                    /\ f.day = current_day
                    /\ f.mtime = now
                    /\ f.total = total_modifications
                    /\ f.counts = mod_count_per_file
             /\ \A r \in resumo_files \ resumo_files' :
                    \/ r.day = current_day
                    \/ \A k \in resumo_files' : r.mtime <= k.mtime )
      ]_vars

\* the directory was full of the summaries of earlier days; the summary of
\* today has been written and the oldest of the earlier ones has been removed
C21_Witness ==
    /\ calls = <<"save_daily_summary", "write_resumo">>
    /\ {f.day : f \in resumo_files} = (1 - max_resumo_files)..0
    /\ \E f \in resumo_files : f.day = 0 /\ f.mtime = now
    /\ \A f \in resumo_files : f.total = 0


\* a limit for the log directory that is set apart from that of the summaries
max_log_files == max_resumo_files + 1

\* the step has written a consolidated log and no deletion of a log has failed
LogFlushed ==
    Count(calls', "write_log") = 1 /\ Count(calls', "remove_log_failed") = 0

\* a flush of one kind leaves the directory of the other kind alone
FlushesKeepApart ==
    /\ \A w \in save_daily_log(World, now) : w.resumo_files = resumo_files
    /\ \A w \in save_daily_summary(World, now) : w.log_files = log_files

\* C22 as stated: the log directory is bounded by a limit of its own, apart
\* from the limit of the summary directory, so a log flush removes log files
\* only beyond that limit; and a flush of one kind never deletes files of the
\* other kind.
C22_LogsHaveOwnLimit ==
    [][ /\ LogFlushed
           => \/ Cardinality(log_files') = max_log_files
              \/ \A f \in log_files : f.day # current_day => f \in log_files'
        /\ FlushesKeepApart
      ]_vars

\* C22 amended: the log directory and the summary directory are cleaned
\* separately, a flush of one kind never deletes files of the other kind, and
\* both are bounded by the one limit max_resumo_files.
C22_SeparateDirectoriesOneLimit ==
    [][ /\ LogFlushed
           => /\ Cardinality(log_files') <= max_resumo_files
              /\ \/ Cardinality(log_files') = max_resumo_files
                 \/ \A f \in log_files : f.day # current_day => f \in log_files'
        /\ SummaryFlushed => Cardinality(resumo_files') <= max_resumo_files
        /\ FlushesKeepApart
        /\ log_files' # log_files => Count(calls', "write_log") = 1
        /\ resumo_files' # resumo_files => Count(calls', "write_resumo") = 1
      ]_vars

\* the log directory was full of the logs of earlier days; the log of today
\* has been written and the oldest log has been removed, no summary with it
C22_Witness ==
    /\ Count(calls, "write_log") = 1
    /\ Count(calls, "write_resumo") = 0
    /\ {f.day : f \in log_files} = (1 - max_resumo_files)..0
    /\ resumo_files # {}


\* C23: FlushLog with an empty event log writes no file and deletes nothing;
\* with a non-empty one it writes one log file, dated with the tally's day,
\* that holds every accumulated line in append order and their number, and
\* then applies the retention to the log directory.
C23_FlushLog ==
    [][ /\ ( main_pc = "save_daily_log" /\ main_pc' # main_pc )
           => IF log_entries = <<>>
              THEN calls' = <<"save_daily_log">> /\ log_files' = log_files
              ELSE /\ Count(calls', "write_log") + Count(calls', "write_log_failed") = 1
                   /\ Count(calls', "write_log_failed") = 1 => log_files' = log_files
                   /\ Count(calls', "write_log") = 1
                        => \E f \in log_files' :
                              /\ f = [day |-> current_day, entries |-> log_entries,
                                      count |-> Len(log_entries), mtime |-> now]
                              /\ \A g \in log_files' \ {f} : g \in log_files /\ g.day # f.day
                   /\ LogFlushed
                        => /\ Cardinality(log_files') <= max_resumo_files
                           /\ \A r \in log_files \ log_files' :
                                  \/ r.day = current_day
                                  \/ \A k \in log_files' : r.mtime <= k.mtime
        /\ Count(calls', "write_log") = 1
           => \E f \in log_files' :
                 /\ f.day = current_day
                 /\ f.mtime = now
                 /\ f.count = Len(f.entries)
                 /\ Len(log_entries) <= Len(f.entries)
                 /\ SubSeq(f.entries, 1, Len(log_entries)) = log_entries
        /\ Count(calls', "write_log") = 0 /\ Count(calls', "remove_log_failed") = 0
           => log_files' = log_files
      ]_vars

\* at shutdown the two lines of the day's one event have been written to the
\* log of the day, and the oldest of the earlier logs has been removed
C23_Witness ==
    /\ calls = <<"save_daily_log", "write_log">>
    /\ main_pc = "save_daily_summary"
    /\ log_entries # <<>>
    /\ \E f \in log_files : f.day = current_day /\ f.count = 2 /\ f.entries = log_entries
    /\ Cardinality(log_files) = max_resumo_files
    /\ \E f \in log_files : f.day < 0


\* the tally in memory
Tally(w) == <<w.current_day, w.total_modifications, w.mod_count_per_file, w.log_entries>>

\* a world as the next operation finds it
Then(w) == [w EXCEPT !.calls = <<>>]

\* C24: FlushSummary and FlushLog leave the tally in memory as it is, whether
\* they succeed or fail; so a flush repeated with no event in between writes
\* the same dated file with the same counts and lines, and whatever an earlier
\* flush of the day did, a flush that succeeds leaves the file of the day
\* with the present counts and lines.
C24_FlushIsIdempotent ==
    [][ /\ \A w1 \in save_daily_summary(World, now) \cup save_daily_log(World, now) :
               Tally(w1) = Tally(World)
        /\ \A w1 \in save_daily_summary(World, now) :
               \A w2 \in save_daily_summary(Then(w1), now) :
                   Count(w2.calls, "write_resumo") = 1
                   => \E f \in w2.resumo_files :
                         /\ f.day = current_day
                         /\ f.total = total_modifications
                         /\ f.counts = mod_count_per_file
                         /\ Count(w1.calls, "write_resumo") = 1 => f \in w1.resumo_files
        /\ \A w1 \in save_daily_log(World, now) :
               \A w2 \in save_daily_log(Then(w1), now) :
                   Count(w2.calls, "write_log") = 1
                   => \E f \in w2.log_files :
                         /\ f.day = current_day
                         /\ f.entries = log_entries
                         /\ Count(w1.calls, "write_log") = 1 => f \in w1.log_files
        /\ ( main_pc \in {"save_daily_log", "save_daily_summary"} /\ main_pc' # main_pc )
           => UNCHANGED <<current_day, total_modifications, mod_count_per_file, log_entries>>
      ]_vars

\* the summary of the day, written at construction, has been written again at
\* shutdown after one event, with the counts of the tally, which is unchanged
C24_Witness ==
    /\ calls = <<"save_daily_summary", "write_resumo">>
    /\ main_pc = "observer.stop"
    /\ current_day = 0
    /\ total_modifications = 1
    /\ log_entries # <<>>
    /\ \E f \in resumo_files :
          f.day = 0 /\ f.total = 1 /\ f.counts = mod_count_per_file /\ f.mtime = now


\* the step has taken a snapshot of the watched root and no removal has failed
SnapshotTaken ==
    /\ main_pc = "backup_monitored_folder" /\ main_pc' # main_pc
    /\ Count(calls', "copytree") = 1
    /\ Count(calls', "rmtree_failed") = 0

\* C25: after every successful snapshot of the watched root the snapshot
\* directory holds at most 5 snapshots, the oldest having been removed first
\* and the snapshot just made being kept; with no snapshot directory
\* configured the operation does nothing.
C25_SnapshotRetention ==
    [][ /\ SnapshotTaken
           => /\ Cardinality(folder_backups') <= max_folder_backups
              /\ \E f \in folder_backups' : f.ts = now /\ f.complete
              /\ \A r \in folder_backups \ folder_backups' :
                     \A k \in folder_backups' : r.ts <= k.ts
        /\ ~backup_folder_dir
           => \A w \in backup_monitored_folder(World, now) :
                  w.folder_backups = folder_backups
      ]_vars


\* C28: constructing the ledger on a date that has a summary file already
\* replaces the file by a summary with total 0 (when the write succeeds);
\* after that, the total that the ledger writes to the summary file of a date
\* never decreases from one flush to the next.
C28_ZeroAtConstructionThenNoDecrease ==
    [][ /\ ( main_pc = "init" /\ main_pc' = "loop" )
           => /\ Count(calls', "write_resumo") + Count(calls', "write_resumo_failed") = 1
              /\ Count(calls', "write_resumo") = 1
                   => /\ \E f \in resumo_files' :
                             f.day = today /\ f.total = 0 /\ f.counts = <<>> /\ f.mtime = now
                      /\ \A f, g \in resumo_files' : f.day = g.day => f = g
        /\ main_pc # "init"
           => \A f \in resumo_files, g \in resumo_files' :
                  ( f.mtime >= StartTime /\ g.day = f.day ) => g.total >= f.total
      ]_vars

\* the summary that an earlier run had written today with total 2 has been
\* replaced at construction by one with total 0
C28_Witness ==
    /\ main_pc = "loop"
    /\ calls = <<"save_daily_summary", "write_resumo">>
    /\ resumo_files = {SummaryOfYesterday,
                       [day |-> 0, total |-> 0, total_files |-> 0, counts |-> <<>>,
                        mtime |-> now]}


\* C31: a CreateBackup of one source path never overwrites or deletes a backup
\* made from another source path, also when the two have the same stem and
\* are backed up within the same second.
C31_OtherSourcesBackupsKept ==
    [][ Count(calls', "create_backup") > 0
        => \A n \in DirNames : \A f \in backups[n] :
              f.src # ev'.src_path => f \in backups'[n]
      ]_vars


\* C32: the tally's day changes only inside register_modification: appending
\* a log entry, flushing the summary, flushing the log and an accepted
\* Deleted event leave it alone; it is never later than the calendar date,
\* and it is the calendar date when register_modification has returned.
C32_DayChangesOnlyInRegister ==
    [][ /\ current_day' # current_day
            => Count(calls', "register_modification") = 1
        /\ Count(calls', "register_modification") = 1 => current_day' = today'
        /\ current_day <= today /\ current_day' <= today'
        /\ (Count(calls', "add_log_entry") = 1 /\ ev'.action = "DELETADO")
            => current_day' = current_day
        /\ \A e \in LedgerEvents : \A a \in Actions :
              add_log_entry(World, [day |-> today, action |-> a,
                                    path |-> e.src_path]).current_day
                  = current_day
        /\ \A w \in save_daily_summary(World, now) \cup save_daily_log(World, now) :
              w.current_day = current_day
      ]_vars

\* A Deleted event is accepted on the day after the tally's day, which holds
\* a registration: the tally's day stays behind the date.
C32_Witness ==
    /\ ev.action = "DELETADO"
    /\ calls = <<"add_log_entry">>
    /\ today = 1 /\ current_day = 0
    /\ total_modifications >= 1


\* C33: with the layout of main (the summary, the log and the snapshot
\* directory are subdirectories of the backup root), no create_backup for a
\* monitored file writes into, or removes a file from, the summary directory,
\* the log directory or the snapshot directory.
C33_CreateBackupKeepsOutOfArchives ==
    [][ Count(calls', "create_backup") > 0
        => \A r \in create_backup(World, ev'.src_path, now) :
              /\ r.w.resumo_files = resumo_files
              /\ r.w.log_files = log_files
              /\ r.w.folder_backups = folder_backups
      ]_vars

============================================================================
